---- MODULE Spec2Model ----
(***************************************************************************)
(* Model of src/main.js: the in-memory session registry, the transport     *)
(* event handlers registered by initializeClient, the waitForConnection    *)
(* poll loop, sendMessage / sendAttachment, and the Apify.main run with    *)
(* its connect, send and sendBulk branches.                                *)
(*                                                                         *)
(* JavaScript runs handlers to completion: the code between two awaits on  *)
(* real I/O or timers is one atomic step.  The states of `pc` listed in    *)
(* Suspended are the points where main is parked on a timer or on I/O;     *)
(* transport events are delivered only there.  Time is read through        *)
(* Date.now() and timers only, so the clock advances only while a timer    *)
(* is pending.                                                             *)
(***************************************************************************)
EXTENDS Integers, Sequences, FiniteSets, TLC

\* ---------------------------------------------------------------- bounds
\* longest messages array drawn for a run
MaxItems == 2
\* transport events delivered during one run
MaxEvents == 2
\* clock granularity in milliseconds
TickMs == 500
\* calls of initializeClient made by a host of the registry
MaxCalls == 3

\* ------------------------------------------------------ program constants
\* setTimeout(resolve, 1000) in the waitForConnection loop
PollIntervalMs == 1000
\* maxWaitTime of the connect branch
ConnectMaxWaitMs == 30000

Undefined == "undefined"
Null == "null"

\* session.status values
StInitializing == "Initializing"
StQR == "QR Code Generated"
StConnected == "Connected"
StAuthFailure == "Authentication Failure"
StDisconnected == "Disconnected"
StNotFound == "Not found"

\* error texts
ErrMissingTo == "Missing required parameter: to"
ErrMissingContent == "Missing required parameter: message or attachment"
ErrTypeRequired == "The \"type\" parameter is required for Base64 attachments."
ErrTransport == "transport send failed"
ErrFetch == "attachment fetch failed"
ErrLoad == "attachment file load failed"

\* `Session <id> is not connected. Current status: <status>`
NotConnectedError(status) ==
    CASE status = StInitializing -> "Session is not connected. Current status: Initializing"
      [] status = StQR -> "Session is not connected. Current status: QR Code Generated"
      [] status = StAuthFailure -> "Session is not connected. Current status: Authentication Failure"
      [] status = StDisconnected -> "Session is not connected. Current status: Disconnected"
      [] status = StConnected -> "Session is not connected. Current status: Connected"
      [] OTHER -> "Session is not connected. Current status: Not found"

VARIABLES
    now,        \* Date.now(), milliseconds
    pc,         \* position of Apify.main
    input,      \* the run input (action, messages.length, delays, timeout, single-send fields)
    insts,      \* every session object created so far, in creation order
    reg,        \* sessions map entry of the run's sessionId: index into insts, 0 = absent
    credDir,    \* the session's credential directory exists (LocalAuth creates it
                \* before the browser starts, so it is there when an event arrives)
    nEvents,    \* transport events delivered so far
    startTime,  \* startTime of the running wait loop
    wakeAt,     \* due time of the pending timer
    waitResult, \* value returned by waitForConnection
    messages,   \* items of input.messages read so far by the sendBulk loop
    i,          \* 1-based index of the sendBulk item being processed
    cur,        \* the send call in progress
    results,    \* results array of sendBulk
    output,     \* records emitted with Apify.pushData
    kvStore,    \* keys written to the key-value store
    qrCodeReceived, \* the flag of the connect branch: a pass found a payload
    runError,   \* message of the error that aborted the run, Null while none
    sendLog,    \* item index of every client.sendMessage invocation, in order
    sleepLog,   \* every completed inter-item sleep: item index, requested and actual ms
    pollLog,    \* what every pass of the wait loop found
    calls,      \* every call of sendMessage / sendAttachment: item index, status found
    thrown,     \* every exception raised while sending: item index, call, message
    reachedConnected, \* the registered session became Connected less than
                      \* input.timeout ms after the wait started
    evLog,      \* every transport callback run so far: the event, the session object it
                \* belongs to, and the object, registry and directory before and after
    initLog     \* every call of initializeClient: the registry before, what it returned

sessVars == <<insts, reg, credDir, nEvents>>
histVars == <<calls, thrown, reachedConnected, evLog, initLog>>
vars == <<now, pc, input, insts, reg, credDir, nEvents, startTime, wakeAt, waitResult,
          messages, i, cur, results, output, kvStore, qrCodeReceived, runError, sendLog,
                   sleepLog, pollLog,
          calls, thrown, reachedConnected, evLog, initLog>>

\* ------------------------------------------------------------ the registry
\* sessions.get(sessionId) found an entry
Registered == reg # 0

\* mutant: the fallback of the connect branch is used for an absent session
StatusOrNotFound_Initializing == IF Registered THEN insts[reg].status ELSE StInitializing
\* session?.status || 'Not found'
StatusOrNotFound == IF Registered THEN insts[reg].status ELSE StNotFound

\* sessions.get(sessionId) of an absent entry, as a record
NoSession == [status |-> Null, qrCode |-> Null, client |-> Null, boot |-> Null]

\* the session object built by initializeClient
NewSession == [status |-> StInitializing, qrCode |-> Null, client |-> "live", boot |-> "pending"]

\* mutant: the lookup is skipped, every call builds a new client and session
InitializeClient_AlwaysNew == [insts |-> Append(insts, NewSession), reg |-> Len(insts) + 1]

\* initializeClient(sessionId, sessionsDir): the registry and the session objects after the call
InitializeClient ==
    IF Registered /\ insts[reg].client # Null
    THEN [insts |-> insts, reg |-> reg]
    ELSE [insts |-> Append(insts, NewSession), reg |-> Len(insts) + 1]

\* a call of initializeClient: the entry it found, the object it returned, the number of
\* clients it created (each with its handlers and its bootstrap), and how many
\* callbacks had run before it
InitRecord ==
    [regBefore |-> reg, before |-> IF Registered THEN insts[reg] ELSE NoSession,
     returned |-> InitializeClient.reg,
     after |-> InitializeClient.insts[InitializeClient.reg],
     created |-> Len(InitializeClient.insts) - Len(insts),
     events |-> Len(evLog)]

\* points where main is parked on a timer
TimerPcs == {"wait_sleep", "connect_sleep", "bulk_sleep"}
\* points where main is parked on I/O
IoPcs == {"qr_publish", "connect_publish", "send_fetch", "send_transport"}
Suspended == TimerPcs \cup IoPcs
\* no main is running: a host calls initializeClient from time to time and the event loop
\* is free in between
HostPcs == {"host"}

\* a transport callback can run: the event loop is free and the event budget is not used up
CanDeliver(k) == /\ pc \in Suspended \cup HostPcs
                 /\ nEvents < MaxEvents
                 /\ k \in 1..Len(insts)

mainVars == <<now, pc, input, startTime, wakeAt, waitResult, messages, i, cur, results,
              output, kvStore, qrCodeReceived, runError, sendLog, sleepLog, pollLog, calls, thrown>>

\* handshake payloads the transport can deliver
QrPayloads == {"qr-1"}

\* one run of a callback of session object k, with what it found and what it left: the
\* object itself, the registry entry, the object the registry held, the directory, and,
\* for a callback that removed the registry entry, the item the sendBulk loop was
\* parked on (0 outside the loop)
EventRecord(ev, k) ==
    [ev |-> ev, k |-> k, before |-> insts[k], after |-> insts'[k],
     item |-> IF reg' # reg THEN i ELSE 0,
     regBefore |-> reg, regAfter |-> reg',
     heldBefore |-> IF Registered THEN insts[reg] ELSE NoSession,
     heldAfter |-> IF Registered THEN insts'[reg] ELSE NoSession,
     dirBefore |-> credDir, dirAfter |-> credDir']

\* client.on('qr')
OnQr(s, qr) == [s EXCEPT !.qrCode = qr, !.status = StQR]
Qr(k) == /\ CanDeliver(k)
         /\ \E qr \in QrPayloads : insts' = [insts EXCEPT ![k] = OnQr(insts[k], qr)]
         /\ nEvents' = nEvents + 1
         /\ UNCHANGED <<reg, credDir, reachedConnected>>
         /\ UNCHANGED mainVars
         /\ evLog' = Append(evLog, EventRecord("qr", k))
         /\ UNCHANGED initLog

\* session k is the registered one and fewer than input.timeout ms have passed since
\* the wait started
InTimeFor(k) == reg = k /\ now - startTime < input.timeout

\* client.on('ready')
OnReady(s) == [s EXCEPT !.qrCode = Null, !.status = StConnected]
Ready(k) == /\ CanDeliver(k)
            /\ insts' = [insts EXCEPT ![k] = OnReady(insts[k])]
            /\ nEvents' = nEvents + 1
            /\ reachedConnected' = (reachedConnected \/ InTimeFor(k))
            /\ UNCHANGED <<reg, credDir>>
            /\ UNCHANGED mainVars
            /\ evLog' = Append(evLog, EventRecord("ready", k))
            /\ UNCHANGED initLog

\* client.on('authenticated')
OnAuthenticated(s) == [s EXCEPT !.status = StConnected]
Authenticated(k) == /\ CanDeliver(k)
                    /\ insts' = [insts EXCEPT ![k] = OnAuthenticated(insts[k])]
                    /\ nEvents' = nEvents + 1
                    /\ reachedConnected' = (reachedConnected \/ InTimeFor(k))
                    /\ UNCHANGED <<reg, credDir>>
                    /\ UNCHANGED mainVars
                    /\ evLog' = Append(evLog, EventRecord("authenticated", k))
                    /\ UNCHANGED initLog

\* client.on('auth_failure'): status, rmSync of the credential directory, sessions.delete
OnAuthFailure(s) == [s EXCEPT !.status = StAuthFailure]
\* mutant: the handler leaves the entry in the registry
AuthFailure_KeepsEntry(k) ==
    /\ CanDeliver(k)
    /\ insts' = [insts EXCEPT ![k] = OnAuthFailure(insts[k])]
    /\ credDir' = FALSE
    /\ nEvents' = nEvents + 1
    /\ UNCHANGED <<reg, reachedConnected>>
    /\ UNCHANGED mainVars
    /\ evLog' = Append(evLog, EventRecord("auth_failure", k))
    /\ UNCHANGED initLog
AuthFailure(k) == /\ CanDeliver(k)
                  /\ insts' = [insts EXCEPT ![k] = OnAuthFailure(insts[k])]
                  /\ credDir' = FALSE
                  /\ reg' = 0
                  /\ nEvents' = nEvents + 1
                  /\ UNCHANGED reachedConnected
                  /\ UNCHANGED mainVars
                  /\ evLog' = Append(evLog, EventRecord("auth_failure", k))
                  /\ UNCHANGED initLog

\* client.on('disconnected'): status, client.destroy(), sessions.delete
OnDisconnected(s) == [s EXCEPT !.status = StDisconnected, !.client = "destroyed"]
\* mutant: the handler also removes the credential directory
Disconnected_RemovesCredentials(k) ==
    /\ CanDeliver(k)
    /\ insts' = [insts EXCEPT ![k] = OnDisconnected(insts[k])]
    /\ credDir' = FALSE
    /\ reg' = 0
    /\ nEvents' = nEvents + 1
    /\ UNCHANGED reachedConnected
    /\ UNCHANGED mainVars
    /\ evLog' = Append(evLog, EventRecord("disconnected", k))
    /\ UNCHANGED initLog
Disconnected(k) == /\ CanDeliver(k)
                   /\ insts' = [insts EXCEPT ![k] = OnDisconnected(insts[k])]
                   /\ reg' = 0
                   /\ nEvents' = nEvents + 1
                   /\ UNCHANGED <<credDir, reachedConnected>>
                   /\ UNCHANGED mainVars
                   /\ evLog' = Append(evLog, EventRecord("disconnected", k))
                   /\ UNCHANGED initLog

\* client.initialize().catch: the bootstrap promise rejects, at most once per client
BootstrapError(k) == /\ CanDeliver(k)
                     /\ insts[k].boot = "pending"
                     /\ insts' = [insts EXCEPT ![k].boot = "rejected"]
                     /\ reg' = 0
                     /\ nEvents' = nEvents + 1
                     /\ UNCHANGED <<credDir, reachedConnected>>
                     /\ UNCHANGED mainVars
                     /\ evLog' = Append(evLog, EventRecord("bootstrap_error", k))
                     /\ UNCHANGED initLog

\* the clock advances while a timer is pending; a timer may fire up to one tick late
Tick == /\ pc \in TimerPcs
        /\ now < wakeAt + TickMs
        /\ now' = now + TickMs
        /\ UNCHANGED <<pc, input, startTime, wakeAt, waitResult, messages, i, cur, results,
                       output, kvStore, qrCodeReceived, runError, sendLog, sleepLog, pollLog>>
        /\ UNCHANGED sessVars
        /\ UNCHANGED histVars

\* ---------------------------------------------------------------- inputs
Actions == {"connect", "send", "sendBulk", "other"}
\* waitForConnectionTimeout values drawn for a run
Timeouts == {0, TickMs, 3 * TickMs}
\* delayBetweenMessages values drawn for a run
DefaultDelays == {0, 2 * TickMs}
\* per-item delay values
ItemDelays == {0, TickMs}

\* One element of input.messages, or the single-send fields of the input.
\* attachment is a local path ("file"), an http URL ("url") or inline Base64 ("b64");
\* hasDelay says that the item defines `delay`.  Of the items without a recipient, whose
\* other fields the code never reads, two are drawn: `to` absent and `to` empty.
Items ==
    { it \in [to : {Undefined, "", "+1 (555) 123"}, message : {Undefined, "hi"},
              attachment : {Undefined, "file", "url", "b64"},
              attachmentType : {Undefined, "image/png"},
              hasDelay : BOOLEAN, delay : ItemDelays] :
        /\ ~it.hasDelay => it.delay = 0
        /\ it.to \in {Undefined, ""} =>
              it.message = "hi" /\ it.attachment = Undefined /\ ~it.hasDelay
        /\ it.attachment # Undefined => it.message = Undefined
        /\ it.attachment # "b64" => it.attachmentType = Undefined }

\* The items drawn for input.messages: the per-item delay is varied on the text items
\* (the delay logic does not look at the content), attachments are a URL or Base64.
BulkItems ==
    { it \in Items :
        /\ it.attachment # "file"
        /\ (it.hasDelay => it.message = "hi") }

NoItem == [to |-> Undefined, message |-> Undefined, attachment |-> Undefined,
           attachmentType |-> Undefined, hasDelay |-> FALSE, delay |-> 0]
NoCall == [caller |-> "none", item |-> NoItem, sess |-> 0, call |-> 0]
NoResult == [returned |-> FALSE, connected |-> FALSE, qrCode |-> Undefined,
             status |-> Undefined]

\* !x for the strings drawn here
Falsy(x) == x \in {Undefined, ""}

\* delay !== undefined ? delay : delayBetweenMessages
CurrentDelay(item, delayBetweenMessages) ==
    IF item.hasDelay THEN item.delay ELSE delayBetweenMessages

Init ==
    /\ now = 0
    /\ pc = "init"
    /\ input = [action |-> Undefined, n |-> 0, delayBetweenMessages |-> 0, timeout |-> 0]
    /\ insts = <<>>
    /\ reg = 0
    /\ credDir = TRUE
    /\ nEvents = 0
    /\ startTime = 0
    /\ wakeAt = 0
    /\ waitResult = NoResult
    /\ messages = <<>>
    /\ i = 0
    /\ cur = NoCall
    /\ results = <<>>
    /\ output = <<>>
    /\ kvStore = {}
    /\ qrCodeReceived = FALSE
    /\ runError = Null
    /\ sendLog = <<>>
    /\ sleepLog = <<>>
    /\ pollLog = <<>>
    /\ calls = <<>>
    /\ thrown = <<>>
    /\ reachedConnected = FALSE
    /\ evLog = <<>>
    /\ initLog = <<>>

\* ------------------------------------------------------------ Apify.main
ErrAuthorization == "Invalid or missing masterApiKey in input"

\* The authorization gate fails: main throws before any session work
Unauthorized ==
    /\ pc = "init"
    /\ pc' = "aborted"
    /\ runError' = ErrAuthorization
    /\ UNCHANGED <<now, input, startTime, wakeAt, waitResult, messages, i, cur, results,
                   output, kvStore, qrCodeReceived, sendLog, sleepLog, pollLog>>
    /\ UNCHANGED sessVars
    /\ UNCHANGED histVars

\* Apify.getInput, the authorization gate passed, the destructuring defaults and
\* initializeClient; for send and sendBulk the call of waitForConnection follows in the
\* same synchronous stretch
Start ==
    /\ pc = "init"
    /\ \E a \in Actions, n \in 0..MaxItems, d \in DefaultDelays, t \in Timeouts :
          /\ a # "sendBulk" => n = 0 /\ d = 0
          /\ a \notin {"send", "sendBulk"} => t = 0
          /\ input' = [action |-> a, n |-> n, delayBetweenMessages |-> d, timeout |-> t]
          /\ pc' = IF a \in {"send", "sendBulk"} THEN "wait_check" ELSE "dispatch"
    /\ insts' = InitializeClient.insts
    /\ reg' = InitializeClient.reg
    /\ initLog' = Append(initLog, InitRecord)
    /\ startTime' = now
    /\ UNCHANGED <<now, credDir, nEvents, wakeAt, waitResult, messages, i, cur, results,
                   output, kvStore, qrCodeReceived, runError, sendLog, sleepLog, pollLog>>
    /\ UNCHANGED <<calls, thrown, reachedConnected, evLog>>

\* mutant: the loop condition admits a pass exactly `timeout` ms after the start
WaitStep_Inclusive(elapsed, timeout) ==
    IF elapsed <= timeout
    THEN IF Registered /\ insts[reg].status = StConnected
         THEN [do |-> "return", connected |-> TRUE, qrCode |-> Undefined, status |-> Undefined]
         ELSE IF Registered /\ insts[reg].qrCode # Null
         THEN [do |-> "return", connected |-> FALSE, qrCode |-> insts[reg].qrCode,
               status |-> insts[reg].status]
         ELSE [do |-> "sleep", connected |-> FALSE, qrCode |-> Undefined, status |-> Undefined]
    ELSE [do |-> "return", connected |-> FALSE, qrCode |-> Undefined,
          status |-> StatusOrNotFound]

\* mutant: the payload is looked at before the status
WaitStep_PayloadFirst(elapsed, timeout) ==
    IF elapsed < timeout
    THEN IF Registered /\ insts[reg].qrCode # Null
         THEN [do |-> "return", connected |-> FALSE, qrCode |-> insts[reg].qrCode,
               status |-> insts[reg].status]
         ELSE IF Registered /\ insts[reg].status = StConnected
         THEN [do |-> "return", connected |-> TRUE, qrCode |-> Undefined, status |-> Undefined]
         ELSE [do |-> "sleep", connected |-> FALSE, qrCode |-> Undefined, status |-> Undefined]
    ELSE [do |-> "return", connected |-> FALSE, qrCode |-> Undefined,
          status |-> StatusOrNotFound]

\* One pass of the loop of waitForConnection, `elapsed` ms after startTime: return a
\* result or sleep; once the time is used up, the code after the loop.
WaitStep(elapsed, timeout) ==
    IF elapsed < timeout
    THEN IF Registered /\ insts[reg].status = StConnected
         THEN [do |-> "return", connected |-> TRUE, qrCode |-> Undefined, status |-> Undefined]
         ELSE IF Registered /\ insts[reg].qrCode # Null
         THEN [do |-> "return", connected |-> FALSE, qrCode |-> insts[reg].qrCode,
               status |-> insts[reg].status]
         ELSE [do |-> "sleep", connected |-> FALSE, qrCode |-> Undefined, status |-> Undefined]
    ELSE [do |-> "return", connected |-> FALSE, qrCode |-> Undefined,
          status |-> StatusOrNotFound]

\* what a pass of the wait loop saw
PollRecord(step) ==
    [elapsed |-> now - startTime, inTime |-> now - startTime < input.timeout,
     registered |-> Registered,
     status |-> IF Registered THEN insts[reg].status ELSE Null,
     qrCode |-> IF Registered THEN insts[reg].qrCode ELSE Null,
     reached |-> reachedConnected, do |-> step.do]

WaitCheck ==
    /\ pc = "wait_check"
    /\ LET step == WaitStep(now - startTime, input.timeout) IN
          /\ pollLog' = Append(pollLog, PollRecord(step))
          /\ IF step.do = "return"
             THEN /\ waitResult' = [returned |-> TRUE, connected |-> step.connected,
                                    qrCode |-> step.qrCode, status |-> step.status]
                  /\ pc' = "wait_done"
                  /\ UNCHANGED wakeAt
             ELSE /\ wakeAt' = now + PollIntervalMs
                  /\ pc' = "wait_sleep"
                  /\ UNCHANGED waitResult
    /\ UNCHANGED <<now, input, startTime, messages, i, cur, results, output, kvStore,
                   qrCodeReceived,
                   runError, sendLog, sleepLog>>
    /\ UNCHANGED sessVars
    /\ UNCHANGED histVars

\* the timer of the wait loop fires
WaitWake ==
    /\ pc = "wait_sleep"
    /\ now >= wakeAt
    /\ pc' = "wait_check"
    /\ UNCHANGED <<now, input, startTime, wakeAt, waitResult, messages, i, cur, results,
                   output, kvStore, qrCodeReceived, runError, sendLog, sleepLog, pollLog>>
    /\ UNCHANGED sessVars
    /\ UNCHANGED histVars

ErrScanQr == "Session not connected. Please scan the QR code"
ErrWaitTimeout == "Session not connected within timeout"
ErrSingleMissingTo == "Missing required parameter: to (recipient phone number)"
ErrEmptyMessages == "messages must be a non-empty array"
ErrUnknownAction == "Unknown action"

\* mutant: the result of the wait is not looked at
AfterWait_Unchecked ==
    /\ pc = "wait_done"
    /\ pc' = "dispatch"
    /\ UNCHANGED <<now, input, startTime, wakeAt, waitResult, messages, i, cur, results,
                   output, kvStore, qrCodeReceived, runError, sendLog, sleepLog, pollLog>>
    /\ UNCHANGED sessVars
    /\ UNCHANGED histVars

\* main after `await waitForConnection(...)`
AfterWait ==
    /\ pc = "wait_done"
    /\ IF waitResult.connected
       THEN pc' = "dispatch" /\ UNCHANGED runError
       ELSE IF waitResult.qrCode # Undefined
       THEN pc' = "qr_publish" /\ UNCHANGED runError
       ELSE pc' = "aborted" /\ runError' = ErrWaitTimeout
    /\ UNCHANGED <<now, input, startTime, wakeAt, waitResult, messages, i, cur, results,
                   output, kvStore, qrCodeReceived, sendLog, sleepLog, pollLog>>
    /\ UNCHANGED sessVars
    /\ UNCHANGED histVars

\* qrcode.toBuffer and the two setValue calls end (an error in them is caught and
\* logged), then main throws
QrPublish ==
    /\ pc = "qr_publish"
    /\ \E written \in {{}, {"QR_CODE"}, {"QR_CODE", "QR_CODE_TEXT"}} :
          kvStore' = kvStore \cup written
    /\ pc' = "aborted"
    /\ runError' = ErrScanQr
    /\ UNCHANGED qrCodeReceived
    /\ UNCHANGED <<now, input, startTime, wakeAt, waitResult, messages, i, cur, results,
                   output, sendLog, sleepLog, pollLog>>
    /\ UNCHANGED sessVars
    /\ UNCHANGED histVars

\* ------------------------------------------- sendMessage / sendAttachment
\* mutant: the check only looks for the registry entry
NotConnected_NoStatusCheck == ~Registered
\* !session || session.status !== 'Connected'
NotConnected == ~Registered \/ insts[reg].status # StConnected

Throw(msg) == [next |-> "throw", error |-> msg]
Goto(next) == [next |-> next, error |-> Null]

\* sendMessage up to its await: the ways it can go on
SendMessageEntry(item) ==
    IF NotConnected
    THEN {Throw(NotConnectedError(StatusOrNotFound))}
    ELSE {Goto("transport")}

\* sendAttachment up to its first await: the ways it can go on (reading a local file
\* may fail)
SendAttachmentEntry(item) ==
    IF NotConnected
    THEN {Throw(NotConnectedError(StatusOrNotFound))}
    ELSE IF item.attachment = "file" THEN {Goto("transport"), Throw(ErrLoad)}
    ELSE IF item.attachment = "url" THEN {Goto("fetch")}
    ELSE IF Falsy(item.attachmentType) THEN {Throw(ErrTypeRequired)}
    ELSE {Goto("transport")}

\* if (attachment) ... else if (message) ... else throw, of the send and sendBulk branches
SendEntry(item) ==
    IF ~Falsy(item.attachment) THEN SendAttachmentEntry(item)
    ELSE IF ~Falsy(item.message) THEN SendMessageEntry(item)
    ELSE {Throw(ErrMissingContent)}

ResultType(item) == IF ~Falsy(item.attachment) THEN "attachment" ELSE "text"
ResultMessage(item) ==
    IF ~Falsy(item.attachment) THEN "Attachment sent successfully"
    ELSE "Message sent successfully"

\* the entries pushed to `results`
SuccessResult(idx, item) ==
    [index |-> idx, success |-> TRUE, to |-> item.to, type |-> ResultType(item),
     message |-> ResultMessage(item), error |-> Undefined]
\* mutant: the catch block drops the error text
FailedResult_NoError(idx, item, err) ==
    [index |-> idx, success |-> FALSE, to |-> item.to, type |-> Undefined,
     message |-> Undefined, error |-> Undefined]
FailedResult(idx, item, err) ==
    [index |-> idx, success |-> FALSE, to |-> item.to, type |-> Undefined,
     message |-> Undefined, error |-> err]
\* mutant: the 0-based loop variable is used as the index
MissingToResult_ZeroBased(idx) ==
    [index |-> idx - 1, success |-> FALSE, to |-> Undefined, type |-> Undefined,
     message |-> Undefined, error |-> ErrMissingTo]
\* mutant: the missing-recipient entry carries the text of the missing-content error
MissingToResult_WrongText(idx) ==
    [index |-> idx, success |-> FALSE, to |-> Undefined, type |-> Undefined,
     message |-> Undefined, error |-> ErrMissingContent]
MissingToResult(idx) ==
    [index |-> idx, success |-> FALSE, to |-> Undefined, type |-> Undefined,
     message |-> Undefined, error |-> ErrMissingTo]

\* the record of the send branch
SingleRecord(item) ==
    [kind |-> "send", success |-> TRUE, to |-> item.to, type |-> ResultType(item),
     message |-> ResultMessage(item)]

\* mutant: the loop bound is off by one, the item before the last gets no delay
SleepsAfter_OffByOne(idx, n, currentDelay) == idx < n - 1 /\ currentDelay > 0
\* i < messages.length - 1 && currentDelay > 0, with idx = i + 1
SleepsAfter(idx, n, currentDelay) == idx < n /\ currentDelay > 0

\* item index of the caller: 0 for the send branch
IndexOf(caller) == IF caller = "bulk" THEN i ELSE 0

\* a client.sendMessage invocation by call number c on the session object k captured by
\* that call
Invocation(caller, c, k) ==
    [index |-> IndexOf(caller), call |-> c, sess |-> k, client |-> insts[k].client,
     status |-> insts[k].status, registered |-> reg = k]

\* a call of sendMessage / sendAttachment and the status its check finds
CallRecord(caller, item) ==
    [index |-> IndexOf(caller),
     fn |-> IF ~Falsy(item.attachment) THEN "sendAttachment" ELSE "sendMessage",
     registered |-> Registered,
     status |-> IF Registered THEN insts[reg].status ELSE Null]

\* an exception raised while sending; call = 0 when it is raised outside the two functions
ThrowRecord(caller, c, err) == [index |-> IndexOf(caller), call |-> c, error |-> err]

\* mutant: no try/catch around the send of a bulk item, an error leaves main
Complete_NoCatch(caller, item, err) ==
    IF err # Null
    THEN /\ pc' = "aborted"
         /\ runError' = err
         /\ UNCHANGED <<output, results, i, wakeAt>>
    ELSE IF caller = "single"
    THEN /\ output' = Append(output, SingleRecord(item))
         /\ pc' = "done"
         /\ UNCHANGED <<runError, results, i, wakeAt>>
    ELSE /\ results' = Append(results, SuccessResult(i, item))
         /\ pc' = "bulk_item"
         /\ i' = i + 1
         /\ UNCHANGED <<wakeAt, output, runError>>

\* The send call of the current item ended, with err = Null when it returned.
\* send branch: pushData, or the error leaves main.  sendBulk branch: the rest of the
\* try block, or the catch block.
Complete(caller, item, err) ==
    IF caller = "single"
    THEN /\ IF err = Null
            THEN /\ output' = Append(output, SingleRecord(item))
                 /\ pc' = "done"
                 /\ UNCHANGED runError
            ELSE /\ pc' = "aborted"
                 /\ runError' = err
                 /\ UNCHANGED output
         /\ UNCHANGED <<results, i, wakeAt>>
    ELSE /\ IF err = Null
            THEN /\ results' = Append(results, SuccessResult(i, item))
                 /\ IF SleepsAfter(i, input.n, CurrentDelay(item, input.delayBetweenMessages))
                    THEN /\ pc' = "bulk_sleep"
                         /\ wakeAt' = now + CurrentDelay(item, input.delayBetweenMessages)
                         /\ UNCHANGED i
                    ELSE /\ pc' = "bulk_item"
                         /\ i' = i + 1
                         /\ UNCHANGED wakeAt
            ELSE /\ results' = Append(results, FailedResult(i, item, err))
                 /\ pc' = "bulk_item"
                 /\ i' = i + 1
                 /\ UNCHANGED wakeAt
         /\ UNCHANGED <<output, runError>>

\* the caller passes the item to sendAttachment or sendMessage (or has no content to send)
IsCall(item) == ~Falsy(item.attachment) \/ ~Falsy(item.message)

\* the synchronous start of a send call, continued as `o` says
Enter(caller, item, o) ==
    /\ calls' = IF IsCall(item) THEN Append(calls, CallRecord(caller, item)) ELSE calls
    /\ IF o.next = "throw"
       THEN /\ Complete(caller, item, o.error)
            /\ thrown' = Append(thrown,
                    ThrowRecord(caller, IF IsCall(item) THEN Len(calls) + 1 ELSE 0, o.error))
            /\ UNCHANGED <<cur, sendLog>>
       ELSE /\ cur' = [caller |-> caller, item |-> item, sess |-> reg, call |-> Len(calls) + 1]
            /\ IF o.next = "fetch"
               THEN pc' = "send_fetch" /\ UNCHANGED sendLog
               ELSE /\ pc' = "send_transport"
                    /\ sendLog' = Append(sendLog, Invocation(caller, Len(calls) + 1, reg))
            /\ UNCHANGED <<results, i, wakeAt, output, runError, thrown>>

\* MessageMedia.fromUrl ends: on success the transport send is invoked on the captured
\* session, on failure the error leaves sendAttachment
FetchDone ==
    /\ pc = "send_fetch"
    /\ \/ /\ pc' = "send_transport"
          /\ sendLog' = Append(sendLog, Invocation(cur.caller, cur.call, cur.sess))
          /\ UNCHANGED <<cur, results, i, wakeAt, output, runError, thrown>>
       \/ /\ Complete(cur.caller, cur.item, ErrFetch)
          /\ thrown' = Append(thrown, ThrowRecord(cur.caller, cur.call, ErrFetch))
          /\ cur' = NoCall
          /\ UNCHANGED sendLog
    /\ UNCHANGED <<now, input, startTime, waitResult, messages, kvStore, qrCodeReceived,
                   sleepLog, pollLog,
                   calls, reachedConnected, evLog, initLog>>
    /\ UNCHANGED sessVars

\* session.client.sendMessage ends: resolved or rejected
TransportDone ==
    /\ pc = "send_transport"
    /\ \E err \in {Null, ErrTransport} :
          /\ Complete(cur.caller, cur.item, err)
          /\ thrown' = IF err = Null THEN thrown
                       ELSE Append(thrown, ThrowRecord(cur.caller, cur.call, err))
    /\ cur' = NoCall
    /\ UNCHANGED <<now, input, startTime, waitResult, messages, kvStore, qrCodeReceived,
                   sendLog, sleepLog,
                   pollLog, calls, reachedConnected, evLog, initLog>>
    /\ UNCHANGED sessVars

\* --------------------------------------------------- the branches of main
\* action === 'connect': the loop starts
DispatchConnect ==
    /\ pc = "dispatch"
    /\ input.action = "connect"
    /\ startTime' = now
    /\ pc' = "connect_check"
    /\ UNCHANGED <<now, input, wakeAt, waitResult, messages, i, cur, results, output,
                   kvStore, qrCodeReceived, runError, sendLog, sleepLog, pollLog>>
    /\ UNCHANGED sessVars
    /\ UNCHANGED histVars

\* one pass of the loop of the connect branch, and the code after it when the time is up
ConnectCheck ==
    /\ pc = "connect_check"
    /\ IF now - startTime < ConnectMaxWaitMs
       THEN IF Registered /\ insts[reg].qrCode # Null
            THEN /\ qrCodeReceived' = TRUE
                 /\ pc' = "connect_publish"
                 /\ cur' = [caller |-> "connect", item |-> NoItem, sess |-> reg, call |-> 0]
                 /\ UNCHANGED <<wakeAt, output>>
            ELSE /\ pc' = "connect_sleep"
                 /\ UNCHANGED qrCodeReceived
                 /\ wakeAt' = now + PollIntervalMs
                 /\ UNCHANGED <<cur, output>>
       ELSE /\ output' = Append(output,
                    [kind |-> "connect", success |-> FALSE, qrCodeSaved |-> FALSE,
                     status |-> IF Registered THEN insts[reg].status ELSE StInitializing])
            /\ pc' = "done"
            /\ UNCHANGED <<cur, wakeAt, qrCodeReceived>>
    /\ UNCHANGED <<now, input, startTime, waitResult, messages, i, results, kvStore,
                   runError, sendLog, sleepLog, pollLog>>
    /\ UNCHANGED sessVars
    /\ UNCHANGED histVars

ConnectWake ==
    /\ pc = "connect_sleep"
    /\ now >= wakeAt
    /\ pc' = "connect_check"
    /\ UNCHANGED <<now, input, startTime, wakeAt, waitResult, messages, i, cur, results,
                   output, kvStore, qrCodeReceived, runError, sendLog, sleepLog, pollLog>>
    /\ UNCHANGED sessVars
    /\ UNCHANGED histVars

\* the try block of the connect branch ends: either everything up to pushData went
\* through, or an error was caught and logged; then `break`
ConnectPublish ==
    /\ pc = "connect_publish"
    /\ \/ /\ kvStore' = kvStore \cup {"QR_CODE", "QR_CODE_TEXT"}
          /\ output' = Append(output,
                  [kind |-> "connect", success |-> TRUE, qrCodeSaved |-> TRUE,
                   status |-> insts[cur.sess].status])
       \/ /\ \E written \in {{}, {"QR_CODE"}, {"QR_CODE", "QR_CODE_TEXT"}} :
                kvStore' = kvStore \cup written
          /\ UNCHANGED output
    /\ pc' = "done"
    /\ cur' = NoCall
    /\ UNCHANGED qrCodeReceived
    /\ UNCHANGED <<now, input, startTime, wakeAt, waitResult, messages, i, results,
                   runError, sendLog, sleepLog, pollLog>>
    /\ UNCHANGED sessVars
    /\ UNCHANGED histVars

\* action === 'send': validation and the start of the send call
DispatchSend ==
    /\ pc = "dispatch"
    /\ input.action = "send"
    /\ \E item \in {it \in Items : ~it.hasDelay} :
          IF Falsy(item.to)
          THEN /\ pc' = "aborted"
               /\ runError' = ErrSingleMissingTo
               /\ UNCHANGED <<cur, sendLog, results, i, wakeAt, output, calls, thrown>>
          ELSE \E o \in SendEntry(item) : Enter("single", item, o)
    /\ UNCHANGED <<now, input, startTime, waitResult, messages, kvStore, qrCodeReceived,
                   sleepLog, pollLog,
                   reachedConnected, evLog, initLog>>
    /\ UNCHANGED sessVars

\* action === 'sendBulk': validation, `results = []` and the loop header
DispatchBulk ==
    /\ pc = "dispatch"
    /\ input.action = "sendBulk"
    /\ IF input.n = 0
       THEN pc' = "aborted" /\ runError' = ErrEmptyMessages /\ UNCHANGED i
       ELSE pc' = "bulk_item" /\ i' = 1 /\ UNCHANGED runError
    /\ UNCHANGED <<now, input, startTime, wakeAt, waitResult, messages, cur, results,
                   output, kvStore, qrCodeReceived, sendLog, sleepLog, pollLog>>
    /\ UNCHANGED sessVars
    /\ UNCHANGED histVars

\* any other action
DispatchUnknown ==
    /\ pc = "dispatch"
    /\ input.action \notin {"connect", "send", "sendBulk"}
    /\ pc' = "aborted"
    /\ runError' = ErrUnknownAction
    /\ UNCHANGED <<now, input, startTime, wakeAt, waitResult, messages, i, cur, results,
                   output, kvStore, qrCodeReceived, sendLog, sleepLog, pollLog>>
    /\ UNCHANGED sessVars
    /\ UNCHANGED histVars

\* One iteration of the sendBulk loop up to its first await: messages[i] is read (the
\* item is drawn here, where the code first looks at it), then the missing-recipient
\* branch or the start of the send call.
BulkItem ==
    /\ pc = "bulk_item"
    /\ i <= input.n
    /\ \E item \in BulkItems :
          /\ messages' = Append(messages, item)
          /\ IF Falsy(item.to)
             THEN /\ results' = Append(results, MissingToResult(i))
                  /\ i' = i + 1
                  /\ UNCHANGED <<pc, cur, sendLog, wakeAt, output, runError, calls, thrown>>
             ELSE \E o \in SendEntry(item) : Enter("bulk", item, o)
    /\ UNCHANGED <<now, input, startTime, waitResult, kvStore, qrCodeReceived, sleepLog, pollLog,
                   reachedConnected, evLog, initLog>>
    /\ UNCHANGED sessVars

\* the inter-item sleep ends
BulkWake ==
    /\ pc = "bulk_sleep"
    /\ now >= wakeAt
    /\ LET requested == CurrentDelay(messages[i], input.delayBetweenMessages) IN
          sleepLog' = Append(sleepLog, [index |-> i, requested |-> requested,
                                        actual |-> now - (wakeAt - requested)])
    /\ i' = i + 1
    /\ pc' = "bulk_item"
    /\ UNCHANGED <<now, input, startTime, wakeAt, waitResult, messages, cur, results,
                   output, kvStore, qrCodeReceived, runError, sendLog, pollLog>>
    /\ UNCHANGED sessVars
    /\ UNCHANGED histVars

\* results.filter(r => r.success).length and its complement
SuccessCount(rs) == Cardinality({k \in 1..Len(rs) : rs[k].success})
FailCount(rs) == Cardinality({k \in 1..Len(rs) : ~rs[k].success})

\* the record pushed after the loop
BatchSummary(rs) ==
    [kind |-> "sendBulk", success |-> TRUE, total |-> input.n,
     successful |-> SuccessCount(rs), failed |-> FailCount(rs), results |-> rs]

\* the loop has ended: counts and pushData
BulkFinish ==
    /\ pc = "bulk_item"
    /\ i > input.n
    /\ output' = Append(output, BatchSummary(results))
    /\ pc' = "done"
    /\ UNCHANGED <<now, input, startTime, wakeAt, waitResult, messages, i, cur, results,
                   kvStore, qrCodeReceived, runError, sendLog, sleepLog, pollLog>>
    /\ UNCHANGED sessVars
    /\ UNCHANGED histVars

Next ==
    \/ Unauthorized
    \/ Start
    \/ WaitCheck
    \/ WaitWake
    \/ AfterWait
    \/ QrPublish
    \/ DispatchConnect
    \/ ConnectCheck
    \/ ConnectWake
    \/ ConnectPublish
    \/ DispatchSend
    \/ DispatchBulk
    \/ DispatchUnknown
    \/ BulkItem
    \/ BulkWake
    \/ BulkFinish
    \/ FetchDone
    \/ TransportDone
    \/ Tick
    \/ \E k \in 1..Len(insts) : Qr(k)
    \/ \E k \in 1..Len(insts) : Ready(k)
    \/ \E k \in 1..Len(insts) : Authenticated(k)
    \/ \E k \in 1..Len(insts) : AuthFailure(k)
    \/ \E k \in 1..Len(insts) : Disconnected(k)
    \/ \E k \in 1..Len(insts) : BootstrapError(k)

Spec == Init /\ [][Next]_vars

\* ------------------------------------------- the registry used by a host
\* The functions of the module called by a host that keeps the process alive:
\* initializeClient is called up to MaxCalls times for the same sessionId, the transports
\* of all the clients created deliver their events in between.
InitHost ==
    /\ now = 0
    /\ pc = "host"
    /\ input = [action |-> Undefined, n |-> 0, delayBetweenMessages |-> 0, timeout |-> 0]
    /\ insts = <<>>
    /\ reg = 0
    /\ credDir = TRUE
    /\ nEvents = 0
    /\ startTime = 0
    /\ wakeAt = 0
    /\ waitResult = NoResult
    /\ messages = <<>>
    /\ i = 0
    /\ cur = NoCall
    /\ results = <<>>
    /\ output = <<>>
    /\ kvStore = {}
    /\ qrCodeReceived = FALSE
    /\ runError = Null
    /\ sendLog = <<>>
    /\ sleepLog = <<>>
    /\ pollLog = <<>>
    /\ calls = <<>>
    /\ thrown = <<>>
    /\ reachedConnected = FALSE
    /\ evLog = <<>>
    /\ initLog = <<>>

\* initializeClient(sessionId, sessionsDir) called by the host; a new client's LocalAuth
\* sets up the credential directory again before any of its events arrives
HostInitializeClient ==
    /\ pc = "host"
    /\ Len(initLog) < MaxCalls
    /\ insts' = InitializeClient.insts
    /\ reg' = InitializeClient.reg
    /\ credDir' = (credDir \/ Len(InitializeClient.insts) > Len(insts))
    /\ initLog' = Append(initLog, InitRecord)
    /\ UNCHANGED <<nEvents, calls, thrown, reachedConnected, evLog>>
    /\ UNCHANGED mainVars

NextHost ==
    \/ HostInitializeClient
    \/ \E k \in 1..Len(insts) : Qr(k)
    \/ \E k \in 1..Len(insts) : Ready(k)
    \/ \E k \in 1..Len(insts) : Authenticated(k)
    \/ \E k \in 1..Len(insts) : AuthFailure(k)
    \/ \E k \in 1..Len(insts) : Disconnected(k)
    \/ \E k \in 1..Len(insts) : BootstrapError(k)

SpecHost == InitHost /\ [][NextHost]_vars

\* ================================================================ claims
\* the run is a sendBulk run whose summary record has been emitted
BulkEmitted == pc = "done" /\ input.action = "sendBulk"

\* C1: the result list emitted by a sendBulk run over N items has exactly N entries, the
\* k-th entry has index k and describes the k-th input item (its recipient, its kind,
\* or the missing recipient), whatever the items' outcomes
C1_ResultsMatchInput ==
    \A r \in 1..Len(output) :
        output[r].kind = "sendBulk" =>
            LET rs == output[r].results IN
            /\ Len(rs) = input.n
            /\ Len(messages) = input.n
            /\ output[r].total = input.n
            /\ \A k \in 1..Len(rs) :
                  /\ rs[k].index = k
                  /\ IF messages[k].to \in {Undefined, ""}
                     THEN ~rs[k].success /\ rs[k].error = ErrMissingTo
                     ELSE /\ rs[k].to = messages[k].to
                          /\ rs[k].success =>
                                rs[k].type = (IF messages[k].attachment # Undefined
                                              THEN "attachment" ELSE "text")

\* a summary was emitted for a batch that mixes a success, a missing recipient or missing
\* content, and a raised exception
C1_Witness ==
    /\ BulkEmitted
    /\ Len(output) = 1
    /\ input.n >= 2
    /\ \E k \in 1..Len(results) : results[k].success
    /\ \E k \in 1..Len(results) : ~results[k].success
    /\ results[1].error \in {ErrMissingTo, ErrMissingContent, ErrTransport}

\* C2: in sendBulk an exception raised while sending an item is caught and recorded as
\* that item's failed result with the exception's message; it never aborts the run, the
\* later items are processed and the run ends with one summary record reporting success
C2_FailuresAbsorbed ==
    (input.action = "sendBulk" /\ thrown # <<>>) =>
        /\ pc # "aborted"
        /\ runError = Null
        /\ \A e \in 1..Len(thrown) :
              /\ thrown[e].index \in 1..Len(results)
              /\ ~results[thrown[e].index].success
              /\ results[thrown[e].index].error = thrown[e].error
              /\ results[thrown[e].index].to = messages[thrown[e].index].to
        /\ pc = "done" =>
              /\ Len(output) = 1
              /\ output[1].kind = "sendBulk"
              /\ output[1].success
              /\ Len(output[1].results) = input.n
              /\ output[1].failed >= Len(thrown)
              /\ output[1].successful + output[1].failed = input.n

\* the first item raised an exception, the second item was sent, the summary is out
C2_Witness ==
    /\ BulkEmitted
    /\ input.n >= 2
    /\ \E e \in 1..Len(thrown) : thrown[e].index = 1 /\ thrown[e].error = ErrTransport
    /\ results[2].success

\* C3: a sendBulk item without `to` yields a failed result with the exact text
\* "Missing required parameter: to"; no send is attempted for it, no delay follows it,
\* and the following items are processed
C3_MissingRecipient ==
    \A k \in 1..Len(messages) :
        messages[k].to \in {Undefined, ""} =>
            /\ Len(results) >= k
            /\ results[k].index = k
            /\ ~results[k].success
            /\ results[k].error = "Missing required parameter: to"
            /\ \A c \in 1..Len(calls) : calls[c].index # k
            /\ \A e \in 1..Len(sendLog) : sendLog[e].index # k
            /\ \A e \in 1..Len(thrown) : thrown[e].index # k
            /\ \A e \in 1..Len(sleepLog) : sleepLog[e].index # k
            /\ ~(pc \in {"bulk_sleep", "send_fetch", "send_transport"} /\ i = k)
            /\ pc # "aborted"
            /\ pc = "done" => Len(results) = input.n /\ Len(output) = 1

\* the first item has no recipient and the second one was sent after it
C3_Witness ==
    /\ BulkEmitted
    /\ input.n >= 2
    /\ messages[1].to = Undefined
    /\ results[2].success
    /\ \E e \in 1..Len(sendLog) : sendLog[e].index = 2

\* item.delay if the item defines it, else delayBetweenMessages
EffectiveDelay(k) ==
    IF messages[k].hasDelay THEN messages[k].delay ELSE input.delayBetweenMessages

\* the loop has left item k behind
Processed(k) == k \in 1..Len(results) /\ (i > k \/ pc = "done")

\* C4 (as stated): after every processed item that has a recipient and is not the last
\* one, sent or failed, the loop sleeps for the effective delay before the next item
\* starts, whenever that delay is greater than zero
C4_DelayAfterEveryProcessedItem ==
    \A k \in 1..Len(messages) :
        (/\ Processed(k)
         /\ k < input.n
         /\ messages[k].to \notin {Undefined, ""}
         /\ EffectiveDelay(k) > 0) =>
            \E e \in 1..Len(sleepLog) :
                sleepLog[e].index = k /\ sleepLog[e].actual >= EffectiveDelay(k)

RECURSIVE SumActual(_)
SumActual(log) == IF log = <<>> THEN 0 ELSE Head(log).actual + SumActual(Tail(log))

RECURSIVE SumEffective(_)
SumEffective(k) == IF k <= 0 THEN 0 ELSE EffectiveDelay(k) + SumEffective(k - 1)

AllSent == \A k \in 1..Len(results) : results[k].success

\* C5: in a sendBulk run in which every item is sent, the time spent in the inter-item
\* sleeps is at least the sum of the effective delays of items 1..N-1, and no sleep is
\* ever started after the last item
C5_PacingLowerBound ==
    /\ ~(pc = "bulk_sleep" /\ i >= input.n)
    /\ \A e \in 1..Len(sleepLog) : sleepLog[e].index < input.n
    /\ (BulkEmitted /\ AllSent) => SumActual(sleepLog) >= SumEffective(input.n - 1)

\* every item was sent, the last one carries a positive delay of its own, and the sleeps
\* before it add up to a positive time
C5_Witness ==
    /\ BulkEmitted
    /\ AllSent
    /\ input.n >= 2
    /\ messages[input.n].hasDelay /\ messages[input.n].delay > 0
    /\ SumEffective(input.n - 1) > 0
    /\ SumActual(sleepLog) > SumEffective(input.n - 1)

\* C6: a call of sendMessage or sendAttachment made while the session is absent from the
\* registry or not Connected raises the not-connected error naming the status found
\* ("Not found" when absent) and invokes no transport send; every transport send belongs
\* to a call whose check found the registered session Connected
C6_SendRequiresConnected ==
    /\ \A c \in 1..Len(calls) :
          (~calls[c].registered \/ calls[c].status # "Connected") =>
              /\ \E e \in 1..Len(thrown) :
                    /\ thrown[e].call = c
                    /\ thrown[e].error =
                          NotConnectedError(IF calls[c].registered THEN calls[c].status
                                            ELSE "Not found")
              /\ \A e \in 1..Len(sendLog) : sendLog[e].call # c
    /\ \A e \in 1..Len(sendLog) :
          /\ sendLog[e].call \in 1..Len(calls)
          /\ calls[sendLog[e].call].registered
          /\ calls[sendLog[e].call].status = "Connected"

\* after a transport send was invoked, a later call found the session registered but
\* no longer Connected and raised the error naming that status
C6_Witness ==
    /\ sendLog # <<>>
    /\ \E c \in 1..Len(calls) :
          /\ calls[c].registered
          /\ calls[c].status = "QR Code Generated"
          /\ \E e \in 1..Len(thrown) :
                /\ thrown[e].call = c
                /\ thrown[e].error =
                      "Session is not connected. Current status: QR Code Generated"

\* the pass of the wait loop that produced the result
LastPoll == pollLog[Len(pollLog)]
\* a pass that found the registered session Connected while time was left
SawConnected(p) == p.inTime /\ p.registered /\ p.status = "Connected"
\* a pass that found a handshake payload on the registered session while time was left
SawPayload(p) == p.inTime /\ p.registered /\ p.qrCode # Null

C8_ConnectedCheckedFirst ==
    \A j \in 1..Len(pollLog) :
        LET p == pollLog[j] IN
        /\ SawConnected(p) =>
              /\ j = Len(pollLog)
              /\ p.do = "return"
              /\ waitResult.returned /\ waitResult.connected
        /\ (SawPayload(p) /\ ~SawConnected(p)) =>
              /\ j = Len(pollLog)
              /\ p.do = "return"
              /\ waitResult = [returned |-> TRUE, connected |-> FALSE, qrCode |-> p.qrCode,
                               status |-> p.status]

\* the wait returned connected=true from a pass that also saw a stored payload
C8_Witness ==
    /\ waitResult.returned
    /\ waitResult.connected
    /\ LastPoll.qrCode # Null

\* C9: when the wait uses up its timeout it returns connected=false with the status the
\* session has at that moment, "Not found" when the session is no longer registered; a
\* wait pending across a teardown ends that way with "Not found", and a send made while
\* the session is gone raises the not-connected error
C9_TimeoutReportsStatus ==
    /\ waitResult.returned =>
          /\ ~LastPoll.inTime =>
                waitResult = [returned |-> TRUE, connected |-> FALSE, qrCode |-> Undefined,
                              status |-> IF LastPoll.registered THEN LastPoll.status
                                         ELSE "Not found"]
          /\ ~LastPoll.registered =>
                /\ ~LastPoll.inTime
                /\ ~waitResult.connected
                /\ waitResult.status = "Not found"
    /\ \A c \in 1..Len(calls) :
          ~calls[c].registered =>
              /\ \E e \in 1..Len(thrown) :
                    /\ thrown[e].call = c
                    /\ thrown[e].error = "Session is not connected. Current status: Not found"
              /\ \A e \in 1..Len(sendLog) : sendLog[e].call # c

\* an authentication failure tore the session down during the wait, which then ran out
\* and reported "Not found"; the run aborted
C9_Witness ==
    /\ waitResult.returned
    /\ ~LastPoll.registered
    /\ Len(pollLog) >= 2
    /\ insts[1].status = "Authentication Failure"
    /\ waitResult.status = "Not found"
    /\ pc = "aborted"

\* C10: in a send or sendBulk run, when the wait does not return connected=true the run
\* aborts with an error, no transport send is invoked and no record is emitted; sends and
\* records occur only after the wait returned connected=true
C10_NoSendWithoutConnection ==
    input.action \in {"send", "sendBulk"} =>
        /\ (waitResult.returned /\ ~waitResult.connected) =>
              /\ pc \in {"wait_done", "qr_publish", "aborted"}
              /\ sendLog = <<>>
              /\ calls = <<>>
              /\ output = <<>>
              /\ pc = "aborted" =>
                    runError = (IF waitResult.qrCode # Undefined THEN ErrScanQr
                                ELSE ErrWaitTimeout)
        /\ (sendLog # <<>> \/ calls # <<>> \/ output # <<>>) =>
              waitResult.returned /\ waitResult.connected

\* the wait returned a pending payload, the payload was published and the run aborted
C10_Witness ==
    /\ input.action \in {"send", "sendBulk"}
    /\ pc = "aborted"
    /\ waitResult.returned
    /\ ~waitResult.connected
    /\ waitResult.qrCode # Undefined
    /\ "QR_CODE" \in kvStore
    /\ runError = ErrScanQr

\* the callbacks that tear a session down
TeardownEvents == {"auth_failure", "disconnected", "bootstrap_error"}
TerminalStatuses == {"Authentication Failure", "Disconnected"}

\* a teardown callback of any client ran after call a and before call b of initializeClient
TeardownBetween(a, b) ==
    \E e \in (initLog[a].events + 1)..initLog[b].events : evLog[e].ev \in TeardownEvents

\* C11: initializeClient is idempotent: of two calls with no teardown callback (auth
\* failure, disconnect, bootstrap rejection) between them, the second returns the session
\* object the first returned, creates no client (hence no handlers and no bootstrap) and
\* leaves the session's status and payload as it found them
C11_InitializeClientIdempotent ==
    \A a \in 1..Len(initLog) : \A b \in (a + 1)..Len(initLog) :
        ~TeardownBetween(a, b) =>
            /\ initLog[b].returned = initLog[a].returned
            /\ initLog[b].created = 0
            /\ initLog[b].regBefore = initLog[a].returned
            /\ initLog[b].after = initLog[b].before
            /\ Len(insts) >= initLog[b].returned

\* the first call created the session, a qr callback changed it, and a second call
\* returned the same object with the payload in place
C11_Witness ==
    /\ Len(initLog) >= 2
    /\ ~TeardownBetween(1, 2)
    /\ initLog[1].created = 1
    /\ initLog[2].events > initLog[1].events
    /\ initLog[2].returned = initLog[1].returned
    /\ initLog[2].after.status = "QR Code Generated"
    /\ initLog[2].after.qrCode # Null

\* C12 (as stated): a connect run that completes has emitted exactly one record, and that
\* record says whether a handshake payload was seen within the 30 second window (success
\* and qrCodeSaved true when one was seen, success false otherwise), also when publishing
\* the payload or emitting the record raised an error
C12_ConnectEmitsOneRecord ==
    (input.action = "connect" /\ pc = "done") =>
        /\ Len(output) = 1
        /\ output[1].kind = "connect"
        /\ output[1].success = qrCodeReceived
        /\ output[1].qrCodeSaved = qrCodeReceived

\* session object k had reached Authentication Failure or Disconnected before callback e
TerminalBefore(k, e) ==
    \E f \in 1..(e - 1) : evLog[f].k = k /\ evLog[f].after.status \in TerminalStatuses

\* C13 (as stated): once a session object has reached Authentication Failure or
\* Disconnected, no later callback of its client (qr, ready, authenticated, auth_failure,
\* disconnected, bootstrap rejection) changes the object's status or payload, the
\* registry or the credential directory
C13_NoEventAfterTerminal ==
    \A e \in 1..Len(evLog) :
        TerminalBefore(evLog[e].k, e) =>
            /\ evLog[e].after.status = evLog[e].before.status
            /\ evLog[e].after.qrCode = evLog[e].before.qrCode
            /\ evLog[e].regAfter = evLog[e].regBefore
            /\ evLog[e].dirAfter = evLog[e].dirBefore

\* the statuses session object k has gone through up to callback e, repeated identical
\* statuses counted once
RECURSIVE StatusHistory(_, _)
StatusHistory(k, e) ==
    IF e = 0 THEN <<"Initializing">>
    ELSE LET h == StatusHistory(k, e - 1) IN
         IF evLog[e].k = k /\ evLog[e].after.status # h[Len(h)]
         THEN Append(h, evLog[e].after.status)
         ELSE h

\* C14 (as stated): whenever a session object's status is Connected, its status history
\* is Initializing, QR Code Generated, Connected or Initializing, Connected, whatever the
\* sequence of callbacks
C14_PathsIntoConnected ==
    \A k \in 1..Len(insts) :
        insts[k].status = "Connected" =>
            StatusHistory(k, Len(evLog)) \in
                { <<"Initializing", "QR Code Generated", "Connected">>,
                  <<"Initializing", "Connected">> }

\* C15 (as stated): the stored handshake payload of a session is non-null exactly while
\* its status is QR Code Generated, and every callback that moves the status out of
\* QR Code Generated clears the payload in the same step
C15_PayloadIffQrPending ==
    /\ Registered => (insts[reg].qrCode # Null <=> insts[reg].status = "QR Code Generated")
    /\ \A e \in 1..Len(evLog) :
          (/\ evLog[e].before.status = "QR Code Generated"
           /\ evLog[e].after.status # "QR Code Generated") => evLog[e].after.qrCode = Null

C17_CredentialsDeletedOnlyByAuthFailure ==
    /\ ~credDir => \E e \in 1..Len(evLog) : evLog[e].ev = "auth_failure"
    /\ \A e \in 1..Len(evLog) :
          /\ evLog[e].ev = "auth_failure" => ~evLog[e].dirAfter
          /\ evLog[e].ev # "auth_failure" => evLog[e].dirAfter = evLog[e].dirBefore
          /\ evLog[e].ev = "disconnected" =>
                /\ evLog[e].after.client = "destroyed"
                /\ evLog[e].regAfter = 0

\* a Connected session was disconnected: its client is destroyed, its entry is gone and
\* the credential directory is still there
C17_Witness ==
    /\ Len(evLog) = 2
    /\ evLog[1].ev = "ready"
    /\ evLog[2].ev = "disconnected"
    /\ evLog[2].regBefore = evLog[2].k
    /\ evLog[2].before.client = "live"
    /\ insts[evLog[2].k].client = "destroyed"
    /\ reg = 0
    /\ credDir

\* C18 (as stated): a bootstrap rejection sets no terminal status and removes the session
\* from the registry only while that session is still Initializing; a registered session
\* that has reached QR Code Generated or Connected is never removed by it
C18_BootstrapErrorOnlyWhileInitializing ==
    \A e \in 1..Len(evLog) :
        evLog[e].ev = "bootstrap_error" =>
            /\ evLog[e].after.status = evLog[e].before.status
            /\ evLog[e].regAfter # evLog[e].regBefore =>
                  /\ evLog[e].regBefore = evLog[e].k
                  /\ evLog[e].before.status = "Initializing"

\* C19 (as stated): client.sendMessage is never invoked on a client for which
\* client.destroy was called: whatever the interleaving of a disconnected callback with
\* sendMessage or sendAttachment, every transport send is invoked on a live client
C19_NoSendOnDestroyedClient ==
    \A e \in 1..Len(sendLog) : sendLog[e].client = "live"

\* C20 (as stated): callbacks of an old session object never affect a newer one: after a
\* session was torn down and initializeClient registered a new session under the same id,
\* no callback of the old client removes the new session from the registry or changes
\* its status or payload
C20_OldEventsLeaveNewSessionAlone ==
    \A e \in 1..Len(evLog) :
        (evLog[e].regBefore # 0 /\ evLog[e].k < evLog[e].regBefore) =>
            /\ evLog[e].regAfter = evLog[e].regBefore
            /\ evLog[e].heldAfter.status = evLog[e].heldBefore.status
            /\ evLog[e].heldAfter.qrCode = evLog[e].heldBefore.qrCode

\* callback e was a disconnect or an authentication failure that removed the session
\* from the registry while the sendBulk loop was parked on an item
TornDuringBulk(e) ==
    /\ input.action = "sendBulk"
    /\ evLog[e].ev \in {"disconnected", "auth_failure"}
    /\ evLog[e].item >= 1

\* what holds after callback e for the items after the one the loop was parked on, apart
\* from the error they are recorded with: no transport send, no delay, the run goes on
RemainingItemsSkipped(e) ==
    /\ \A k \in (evLog[e].item + 1)..Len(results) :
          /\ ~results[k].success
          /\ \A s \in 1..Len(sendLog) : sendLog[s].index # k
          /\ \A s \in 1..Len(sleepLog) : sleepLog[s].index # k
    /\ ~(pc \in {"send_fetch", "send_transport", "bulk_sleep"} /\ i > evLog[e].item)
    /\ pc # "aborted"
    /\ pc = "done" =>
          /\ Len(results) = input.n
          /\ Len(output) = 1
          /\ output[1].total = input.n
          /\ Len(output[1].results) = input.n

C22_NotConnectedNeverReportsConnected ==
    (waitResult.returned /\ ~waitResult.connected) => waitResult.status # "Connected"

====
